---- MODULE Spec2Model ----
(***************************************************************************)
(* Model of critter_lunar_cycle.py: lunar-phase calculation, monthly phase *)
(* tables, the paginated observation fetch, and main's twelve-month        *)
(* aggregation and histogram.                                              *)
(*                                                                         *)
(* Time is kept exactly.  A duration is a record [d, m, s] standing for    *)
(* d days + m minutes + s/SubPerMinute minutes, with 0 <= m < 1440 and     *)
(* 0 <= s < SubPerMinute; the sign of the duration is the sign of d.       *)
(* 29.53058867 days is exactly 29 d + 764 min + 29803/625000 min.          *)
(* The code computes in binary floating point; the phase fraction is kept  *)
(* here as its thousandths rounded down, which decides every comparison    *)
(* of lines 70-84 as the exact quotient does.  Dates are at minute         *)
(* resolution, date keys "YYYY-MM-DD" are <<year, month, day>>, and a page *)
(* of results is the number of results per observed_on date.               *)
(***************************************************************************)
EXTENDS Integers, Sequences, FiniteSets, TLC

VARIABLES
    date,                 \* calculate_lunar_phase: the argument (a datetime)
    days_since_new_moon,  \* line 67, as an exact duration
    normalized_phase,     \* line 68, in thousandths, rounded down
    phase,                \* the label returned
    year_arg,             \* get_lunar_cycle_for_month: the year argument
    month_arg,            \* get_lunar_cycle_for_month: the month argument
    month_result,         \* what the call did: raised, or the table returned
    pc,                   \* main: where the run is
    year,                 \* main: the year entered
    todo,                 \* main: the months the loop of line 135 has yet to take
    month,                \* main: the loop variable
    page,                 \* fetch: params["page"]
    observations,         \* fetch: the month's counts so far
    requested,            \* the page requests of the current fetch, in order
    taxon_name,
    all_observations,     \* main: year-scope counts
    all_lunar_cycle,      \* main: year-scope phase table
    counts,               \* plot: the bar heights, in LUNAR_PHASES order
    error,                \* the exception that ended the run, if any
    remote,               \* the observation service: month -> its pages
    merged,               \* the months merged into the accumulators
    monthly,              \* month -> the counts its fetch returned
    n_requests,           \* HTTP requests sent
    failures,             \* HTTP requests that failed
    jumps                 \* times the loop took a month other than the next

phaseVars == <<date, days_since_new_moon, normalized_phase, phase>>
monthVars == <<year_arg, month_arg, month_result>>
fetchVars == <<page, observations, requested>>
yearVars == <<all_observations, all_lunar_cycle, merged, monthly>>
mainVars ==
    <<pc, year, todo, month, fetchVars, taxon_name, yearVars, counts, error,
      remote, n_requests, failures, jumps>>

vars == <<phaseVars, monthVars, mainVars>>

None == "None"

-----------------------------------------------------------------------------
(* The datetime library: proleptic Gregorian calendar, years 1..9999.      *)

MINYEAR == 1
MAXYEAR == 9999
MinutesPerDay == 1440
SubPerMinute == 625000

LUNAR_PHASES ==
    << "New Moon", "Waxing Crescent", "First Quarter", "Waxing Gibbous",
       "Full Moon", "Waning Gibbous", "Last Quarter", "Waning Crescent" >>

is_leap(y) == y % 4 = 0 /\ (y % 100 # 0 \/ y % 400 = 0)

DAYS_IN_MONTH == <<31, 28, 31, 30, 31, 30, 31, 31, 30, 31, 30, 31>>

days_in_month(y, m) == IF m = 2 /\ is_leap(y) THEN 29 ELSE DAYS_IN_MONTH[m]

RECURSIVE days_before_month(_, _)
days_before_month(y, m) ==
    IF m <= 1 THEN 0 ELSE days_before_month(y, m - 1) + days_in_month(y, m - 1)

days_before_year(y) ==
    LET p == y - 1 IN p * 365 + (p \div 4) - (p \div 100) + (p \div 400)

\* date.toordinal(): 0001-01-01 is day 1.
ymd2ord(y, m, d) == days_before_year(y) + days_before_month(y, m) + d

MaxOrdinal == ymd2ord(MAXYEAR, 12, 31)

\* date.fromordinal(): the inverse, by the library's 400/100/4/1-year cycles.
ord2ymd(ord) ==
    LET n0   == ord - 1
        n400 == n0 \div 146097
        r400 == n0 % 146097
        n100 == r400 \div 36524
        r100 == r400 % 36524
        n4   == r100 \div 1461
        r4   == r100 % 1461
        n1   == r4 \div 365
        n    == r4 % 365
        y    == n400 * 400 + 1 + n100 * 100 + n4 * 4 + n1
    IN  IF n1 = 4 \/ n100 = 4
        THEN [year |-> y - 1, month |-> 12, day |-> 31]
        ELSE LET m0   == (n + 50) \div 32
                 pre0 == days_before_month(y, m0)
                 m    == IF pre0 > n THEN m0 - 1 ELSE m0
                 pre  == IF pre0 > n THEN pre0 - days_in_month(y, m) ELSE pre0
             IN  [year |-> y, month |-> m, day |-> n - pre + 1]

\* a constructor that checks the year and the day but not the month
datetime_ok_any_month(y, m, d) ==
    /\ MINYEAR <= y /\ y <= MAXYEAR
    /\ 1 <= d /\ d <= 31

\* datetime(year, month, day, hour, minute) raises ValueError outside these.
datetime_ok(y, m, d) ==
    /\ MINYEAR <= y /\ y <= MAXYEAR
    /\ 1 <= m /\ m <= 12
    /\ 1 <= d /\ d <= days_in_month(y, m)

datetime(y, m, d, h, mi) ==
    [year |-> y, month |-> m, day |-> d, hour |-> h, minute |-> mi]

toordinal(dt) == ymd2ord(dt.year, dt.month, dt.day)

\* dt + timedelta(days=n) raises OverflowError outside 0001-01-01..9999-12-31.
add_days_ok(dt, n) == toordinal(dt) + n >= 1 /\ toordinal(dt) + n <= MaxOrdinal

add_days(dt, n) ==
    LET r == ord2ymd(toordinal(dt) + n)
    IN  datetime(r.year, r.month, r.day, dt.hour, dt.minute)

replace_day(dt, d) == [dt EXCEPT !.day = d]

\* a < b on datetimes
dt_lt(a, b) ==
    \/ toordinal(a) < toordinal(b)
    \/ /\ toordinal(a) = toordinal(b)
       /\ a.hour * 60 + a.minute < b.hour * 60 + b.minute

\* a <= b on datetimes
dt_le(a, b) ==
    \/ toordinal(a) < toordinal(b)
    \/ /\ toordinal(a) = toordinal(b)
       /\ a.hour * 60 + a.minute <= b.hour * 60 + b.minute

\* strftime("%Y-%m-%d"): the calendar day, time of day dropped.
strftime(dt) == <<dt.year, dt.month, dt.day>>

-----------------------------------------------------------------------------
(* Exact durations.                                                        *)

Dur(d, m, s) ==
    LET m1 == m + (s \div SubPerMinute)
    IN  [d |-> d + (m1 \div MinutesPerDay),
         m |-> m1 % MinutesPerDay,
         s |-> s % SubPerMinute]

DurLt(a, b) ==
    \/ a.d < b.d
    \/ a.d = b.d /\ a.m < b.m
    \/ a.d = b.d /\ a.m = b.m /\ a.s < b.s

DurLe(a, b) == ~DurLt(b, a)

DurZero == Dur(0, 0, 0)

\* k * t, the thousands of k apart so that no limb leaves 32 bits
DurScale(k, t) ==
    LET kh == k \div 1000
        kl == k % 1000
        t1000 == Dur(1000 * t.d, 1000 * t.m, 1000 * t.s)
    IN  Dur(kh * t1000.d + kl * t.d, kh * t1000.m + kl * t.m,
            kh * t1000.s + kl * t.s)

DurSub(a, b) == Dur(a.d - b.d, a.m - b.m, a.s - b.s)

\* (a - b).total_seconds() / 86400 for two datetimes
total_days(a, b) ==
    Dur(toordinal(a) - toordinal(b),
        (a.hour * 60 + a.minute) - (b.hour * 60 + b.minute), 0)

\* x / w in whole units, estimated from the days of x and the hundredths of a
\* day of w; the quotient proper lies within NearBy of it for every datetime
DurQuotEstimate(x, w) ==
    (x.d * 100) \div (w.d * 100 + (w.m * 100) \div MinutesPerDay)

NearBy == 4

\* C's fmod: the remainder has the sign of the dividend.
c_fmod(x, w) ==
    LET q0 == DurQuotEstimate(x, w)
        k  == CHOOSE k \in (q0 - NearBy)..(q0 + NearBy) :
                 LET r == DurSub(x, DurScale(k, w))
                 IN  IF DurLe(DurZero, x)
                     THEN DurLe(DurZero, r) /\ DurLt(r, w)
                     ELSE DurLt(DurSub(DurZero, w), r) /\ DurLe(r, DurZero)
    IN  DurSub(x, DurScale(k, w))

\* Python's float x % w for w > 0: x - floor(x / w) * w, never negative.
py_mod(x, w) ==
    LET q0 == DurQuotEstimate(x, w)
        k  == CHOOSE k \in (q0 - NearBy)..(q0 + NearBy) :
                 LET r == DurSub(x, DurScale(k, w))
                 IN  DurLe(DurZero, r) /\ DurLt(r, w)
    IN  DurSub(x, DurScale(k, w))

\* floor(1000 * r / w): the quotient r / w in thousandths, rounded down.  A
\* comparison of r / w with a multiple of 0.001 is decided by it exactly.
py_div(r, w) ==
    LET r1000 == Dur(1000 * r.d, 1000 * r.m, 1000 * r.s)
        c0 == ((r.d * MinutesPerDay + r.m) * 1000)
                  \div (w.d * MinutesPerDay + w.m)
    IN  CHOOSE c \in (c0 - 2)..(c0 + 2) :
            /\ DurLe(DurScale(c, w), r1000)
            /\ DurLt(r1000, DurScale(c + 1, w))

-----------------------------------------------------------------------------
(* calculate_lunar_phase                                                   *)

known_new_moon == datetime(2000, 1, 6, 18, 14)

lunar_cycle_days == [d |-> 29, m |-> 764, s |-> 29803]

\* lines 70-84, on thousandths
PhaseLabelOffByOne(np) ==
    IF np < 30 \/ np >= 970 THEN "New Moon"
    ELSE IF np < 250 THEN "Waxing Crescent"
    ELSE IF np <= 270 THEN "First Quarter"
    ELSE IF np < 500 THEN "Waxing Gibbous"
    ELSE IF np < 530 THEN "Full Moon"
    ELSE IF np < 750 THEN "Waning Gibbous"
    ELSE IF np < 770 THEN "Last Quarter"
    ELSE "Waning Crescent"

PhaseLabel(np) ==
    IF np < 30 \/ np >= 970 THEN "New Moon"
    ELSE IF np < 250 THEN "Waxing Crescent"
    ELSE IF np < 270 THEN "First Quarter"
    ELSE IF np < 500 THEN "Waxing Gibbous"
    ELSE IF np < 530 THEN "Full Moon"
    ELSE IF np < 750 THEN "Waning Gibbous"
    ELSE IF np < 770 THEN "Last Quarter"
    ELSE "Waning Crescent"

DaysSinceNewMoon(dt) == total_days(dt, known_new_moon)

NormalizedPhase(dt) ==
    py_div(py_mod(DaysSinceNewMoon(dt), lunar_cycle_days), lunar_cycle_days)

calculate_lunar_phase(dt) == PhaseLabel(NormalizedPhase(dt))

-----------------------------------------------------------------------------
(* Dictionaries: functions on the keys present.                            *)

EmptyDict == << >>

Put(dict, k, v) ==
    [x \in (DOMAIN dict) \cup {k} |-> IF x = k THEN v ELSE dict[x]]

\* dict.get(k): None when k is absent
Get(dict, k) == IF k \in DOMAIN dict THEN dict[k] ELSE None

\* defaultdict(int)[k]
GetCount(dict, k) == IF k \in DOMAIN dict THEN dict[k] ELSE 0

-----------------------------------------------------------------------------
(* get_lunar_cycle_for_month                                               *)

\* lines 94-98: the number of turns the loop takes from current_date on,
\* added to n
RECURSIVE LoopTurns(_, _, _)
LoopTurns(current_date, end_date, n) ==
    IF dt_le(current_date, end_date)
    THEN LoopTurns(add_days(current_date, 1), end_date, n + 1)
    ELSE n

\* turn i (from 0) of the loop: its current_date and the key it writes
TurnOn(i, current_date) ==
    [i |-> i, date |-> current_date, key |-> strftime(current_date)]

Turn(start_date, i) == TurnOn(i, add_days(start_date, i))

\* the last of the turns that writes key k
LastTurn(turns, k) ==
    CHOOSE t \in turns :
        t.key = k /\ \A u \in turns : u.key = k => u.i <= t.i

\* The dictionary the turns leave: each stores the phase of its date under
\* the date's key, a later turn overwriting an earlier one's key.
LunarCycleAfter(turns, n) ==
    [lunar_cycle |->
        [k \in { t.key : t \in turns } |->
            calculate_lunar_phase(LastTurn(turns, k).date)],
     calls |-> n]

LunarCycleTurns(start_date, n) ==
    LunarCycleAfter({ Turn(start_date, i) : i \in 0..(n - 1) }, n)

LunarCycleLoop(start_date, end_date) ==
    LunarCycleTurns(start_date, LoopTurns(start_date, end_date, 0))

\* lines 30-32 and 90: (start + 32 days).replace(day=1) - 1 day
LastDayOfMonth(start_date) ==
    add_days(replace_day(add_days(start_date, 32), 1), -1)

\* the outcome of a call: the exception raised, or the value returned
Raised(e) ==
    [error |-> e, returned |-> FALSE, lunar_cycle |-> EmptyDict, calls |-> 0]

Returned(acc) ==
    [error |-> None, returned |-> TRUE, lunar_cycle |-> acc.lunar_cycle,
     calls |-> acc.calls]

NotCalled == Raised("NotCalled")

get_lunar_cycle_for_month(y, m) ==
    IF ~datetime_ok(y, m, 1) THEN Raised("ValueError")
    ELSE LET start_date == datetime(y, m, 1, 0, 0)
         IN  IF ~add_days_ok(start_date, 32) THEN Raised("OverflowError")
             ELSE Returned(LunarCycleLoop(start_date,
                                          LastDayOfMonth(start_date)))

-----------------------------------------------------------------------------
(* get_inaturalist_daily_observations                                      *)

per_page == 200

\* A page of results is kept as the number of results per observed_on date.
RECURSIVE SumOver(_, _)
SumOver(dict, keys) ==
    IF keys = {} THEN 0
    ELSE LET k == CHOOSE x \in keys : TRUE
         IN  dict[k] + SumOver(dict, keys \ {k})

\* len(results)
Len_results(results) == SumOver(results, DOMAIN results)

\* dict[k] = c in place of dict[k] += c
SetCount(dict, k, c) == Put(dict, k, c)

\* dict[k] += c on a defaultdict(int)
AddCount(dict, k, c) == Put(dict, k, GetCount(dict, k) + c)

\* lines 53-54 and 144-145: add the counts of `more` into `dict`, key by key
RECURSIVE AddAll(_, _, _)
AddAll(dict, more, keys) ==
    IF keys = {} THEN dict
    ELSE LET k == CHOOSE x \in keys : TRUE
         IN  AddAll(AddCount(dict, k, more[k]), more, keys \ {k})

\* a status check that lets every response through
raise_for_status_ignored(ok) == None

\* response.raise_for_status()
raise_for_status(ok) == IF ok THEN None ELSE "HTTPError"

\* line 56 with <= for <
IsShortPageOrFull(n) == n <= per_page

\* line 56: len(results) < params["per_page"]
IsShortPage(n) == n < per_page

\* strptime(f"{year}-{month:02d}-01", "%Y-%m-%d"): %Y takes four digits
strptime_ok(y, m, d) == 1000 <= y /\ y <= MAXYEAR /\ datetime_ok(y, m, d)

\* lines 29-32: None, or the exception raised before the first request
FetchSetupError(y, m) ==
    IF ~strptime_ok(y, m, 1) THEN "ValueError"
    ELSE IF ~add_days_ok(datetime(y, m, 1, 0, 0), 32) THEN "OverflowError"
    ELSE None

\* the service's answer to a request for page p of month m
RemotePage(rem, m, p) ==
    IF p \in 1..Len(rem[m]) THEN rem[m][p] ELSE EmptyDict

-----------------------------------------------------------------------------
(* plot_observations_by_lunar_phase, lines 105-112                         *)

\* line 109: `if lunar_phase:`
Truthy(v) == v # None /\ v # ""

RECURSIVE PhaseCountsLoop(_, _, _, _)
PhaseCountsLoop(keys, obs, lunar_cycle, phase_counts) ==
    IF keys = {} THEN phase_counts
    ELSE LET dk == CHOOSE x \in keys : TRUE
             lunar_phase == Get(lunar_cycle, dk)
         IN  PhaseCountsLoop(
                 keys \ {dk}, obs, lunar_cycle,
                 IF Truthy(lunar_phase)
                 THEN AddCount(phase_counts, lunar_phase, obs[dk])
                 ELSE phase_counts)

PhaseBucketCounts(obs, lunar_cycle) ==
    LET phase_counts == PhaseCountsLoop(DOMAIN obs, obs, lunar_cycle, EmptyDict)
    IN  [i \in 1..8 |-> GetCount(phase_counts, LUNAR_PHASES[i])]

-----------------------------------------------------------------------------
(* main, lines 132-146                                                     *)

\* dict.update(other)
Update(dict, other) ==
    [k \in (DOMAIN dict) \cup (DOMAIN other) |->
        IF k \in DOMAIN other THEN other[k] ELSE dict[k]]

\* all_observations.update(observations) in place of the loop of += 
MergeMonthOverwriting(acc, obs, lunar_cycle) ==
    [all_observations |-> Update(acc.all_observations, obs),
     all_lunar_cycle |-> Update(acc.all_lunar_cycle, lunar_cycle)]

\* lines 144-146
MergeMonth(acc, obs, lunar_cycle) ==
    [all_observations |-> AddAll(acc.all_observations, obs, DOMAIN obs),
     all_lunar_cycle |-> Update(acc.all_lunar_cycle, lunar_cycle)]

EmptyYear == [all_observations |-> EmptyDict, all_lunar_cycle |-> EmptyDict]

-----------------------------------------------------------------------------
(* calculate_lunar_phase applied to a bounded set of instants.             *)

PhaseYears == {1999, 2000, 2001}
FarYears == {MINYEAR, MAXYEAR}
PhaseHours == {0, 6, 12, 18}
PhaseMinutes == {0, 14}

Instants ==
    { datetime(y, m, d, h, mi) :
        y \in PhaseYears, m \in 1..12, d \in 1..31,
        h \in PhaseHours, mi \in PhaseMinutes }
    \cup { datetime(y, m, d, 0, 0) : y \in FarYears, m \in 1..12, d \in 1..31 }

IdlePhase ==
    /\ date = None /\ days_since_new_moon = None
    /\ normalized_phase = None /\ phase = None

IdleMonth ==
    year_arg = None /\ month_arg = None /\ month_result = NotCalled

IdleMain ==
    /\ pc = "idle" /\ year = 0 /\ todo = {} /\ month = 0
    /\ page = 0 /\ observations = EmptyDict /\ requested = << >>
    /\ taxon_name = None
    /\ all_observations = EmptyDict /\ all_lunar_cycle = EmptyDict
    /\ merged = {} /\ monthly = EmptyDict
    /\ counts = << >> /\ error = None /\ remote = << >>
    /\ n_requests = 0 /\ failures = 0 /\ jumps = 0

InitPhase ==
    /\ date \in { dt \in Instants : datetime_ok(dt.year, dt.month, dt.day) }
    /\ days_since_new_moon = None
    /\ normalized_phase = None
    /\ phase = None
    /\ IdleMonth /\ IdleMain

CalculateLunarPhase ==
    /\ phase = None
    /\ days_since_new_moon' = DaysSinceNewMoon(date)
    /\ normalized_phase' = NormalizedPhase(date)
    /\ phase' = calculate_lunar_phase(date)
    /\ UNCHANGED <<date, monthVars, mainVars>>

NextPhase == CalculateLunarPhase

SpecPhase == InitPhase /\ [][NextPhase]_vars

-----------------------------------------------------------------------------
(* get_lunar_cycle_for_month applied to a bounded set of arguments.        *)

MonthYears == {-1, 0, MINYEAR, 1900, 1999, 2000, 2023, 2024, MAXYEAR, MAXYEAR + 1}
MonthArgs == 0..13

InitMonth ==
    /\ year_arg \in MonthYears
    /\ month_arg \in MonthArgs
    /\ month_result = NotCalled
    /\ IdlePhase /\ IdleMain

GetLunarCycleForMonth ==
    /\ month_result = NotCalled
    /\ month_result' = get_lunar_cycle_for_month(year_arg, month_arg)
    /\ UNCHANGED <<year_arg, month_arg, phaseVars, mainVars>>

NextMonth == GetLunarCycleForMonth

SpecMonth == InitMonth /\ [][NextMonth]_vars

-----------------------------------------------------------------------------
(* main: one run of the program against a service whose pages are fixed.   *)

MaxPages == 2

MainYears == {999, 2023, 2024, MAXYEAR}

\* the pages the service may hold, for a run over year y
Pages(y) ==
    { (<<y, 1, 11>> :> per_page),
      (<<y, 1, 11>> :> 120) @@ (<<y, 1, 25>> :> 80),
      (<<y, 1, 11>> :> 3) @@ (<<y, 1, 25>> :> 5),
      (<<y, 1, 25>> :> 1) @@ (<<y, 1, 26>> :> 2) @@ (<<y + 1, 1, 1>> :> 4),
      (<<y, 1, 26>> :> per_page - 1),
      EmptyDict }

PageSeqs(y) == UNION { [1..n -> Pages(y)] : n \in 0..MaxPages }

\* what the service holds for December
LateSeq(y) == << (<<y, 1, 11>> :> 2) @@ (<<y, 12, 31>> :> 1) >>

Remotes(y) ==
    { [m \in 1..12 |->
          IF m = 1 THEN early ELSE IF m = 12 THEN LateSeq(y) ELSE << >>] :
        early \in PageSeqs(y) }

StartMain(y, rem) ==
    /\ pc = "loop" /\ year = y /\ remote = rem
    /\ todo = 1..12 /\ month = 0
    /\ page = 0 /\ observations = EmptyDict /\ requested = << >>
    /\ taxon_name = None
    /\ all_observations = EmptyDict /\ all_lunar_cycle = EmptyDict
    /\ merged = {} /\ monthly = EmptyDict
    /\ counts = << >> /\ error = None
    /\ n_requests = 0 /\ failures = 0 /\ jumps = 0

Init ==
    /\ \E y \in MainYears : \E rem \in Remotes(y) : StartMain(y, rem)
    /\ IdlePhase /\ IdleMonth

\* line 137, lines 29-43: the call of the fetch for month m
EnterMonth(m) ==
    /\ month' = m
    /\ todo' = todo \ {m}
    /\ page' = 1
    /\ observations' = EmptyDict
    /\ requested' = << >>
    /\ LET e == FetchSetupError(year, m)
       IN  IF e # None
           THEN error' = e /\ pc' = "failed"
           ELSE error' = error /\ pc' = "request"
    /\ UNCHANGED <<year, taxon_name, yearVars, counts, remote, n_requests,
                   failures, phaseVars, monthVars>>

\* line 135: for month in range(1, 13)
NextMonthInOrder ==
    /\ pc = "loop" /\ todo # {}
    /\ EnterMonth(CHOOSE m \in todo : \A o \in todo : m <= o)
    /\ UNCHANGED jumps

\* lines 46-58: one turn of the fetch loop
Request ==
    /\ pc = "request"
    /\ \E ok \in BOOLEAN :
        LET results == IF ok THEN RemotePage(remote, month, page) ELSE EmptyDict
            n == Len_results(results)
            e == raise_for_status(ok)
        IN  /\ requested' = Append(requested,
                                   [page |-> page, per_page |-> per_page,
                                    ok |-> ok, results |-> results])
            /\ n_requests' = n_requests + 1
            /\ failures' = IF ok THEN failures ELSE failures + 1
            /\ IF e # None
               THEN /\ error' = e /\ pc' = "failed"
                    /\ UNCHANGED <<page, observations>>
               ELSE /\ error' = error
                    /\ IF n = 0
                       THEN pc' = "taxon" /\ UNCHANGED <<page, observations>>
                       ELSE /\ observations' =
                                AddAll(observations, results, DOMAIN results)
                            /\ IF IsShortPage(n)
                               THEN pc' = "taxon" /\ page' = page
                               ELSE pc' = "request" /\ page' = page + 1
    /\ UNCHANGED <<year, todo, month, taxon_name, yearVars, counts, remote,
                   jumps, phaseVars, monthVars>>

\* line 138, lines 22-24: get_taxon_name
TaxonName ==
    /\ pc = "taxon"
    /\ \E ok \in BOOLEAN : \E found \in BOOLEAN :
        LET e == raise_for_status(ok)
        IN  /\ n_requests' = n_requests + 1
            /\ failures' = IF ok THEN failures ELSE failures + 1
            /\ IF e # None
               THEN error' = e /\ pc' = "failed" /\ UNCHANGED taxon_name
               ELSE IF ~found \/ ~ok
               THEN error' = "IndexError" /\ pc' = "failed"
                    /\ UNCHANGED taxon_name
               ELSE error' = error /\ pc' = "lunar" /\ taxon_name' = "name"
    /\ UNCHANGED <<year, todo, month, fetchVars, yearVars, counts, remote,
                   jumps, phaseVars, monthVars>>

\* lines 144-146, or the exception of line 141 ending the run
MergeOrFail(r, acc) ==
    IF ~r.returned
    THEN error' = r.error /\ pc' = "failed" /\ UNCHANGED yearVars
    ELSE /\ error' = error /\ pc' = "loop"
         /\ all_observations' = acc.all_observations
         /\ all_lunar_cycle' = acc.all_lunar_cycle
         /\ merged' = merged \cup {month}
         /\ monthly' = Put(monthly, month, observations)

MergeResult(r) ==
    MergeOrFail(r, MergeMonth([all_observations |-> all_observations,
                               all_lunar_cycle |-> all_lunar_cycle],
                              observations, r.lunar_cycle))

\* lines 141-146: the month's phase table, then the merge
LunarAndMerge ==
    /\ pc = "lunar"
    /\ MergeResult(get_lunar_cycle_for_month(year, month))
    /\ UNCHANGED <<year, todo, month, fetchVars, taxon_name, counts, remote,
                   n_requests, failures, jumps, phaseVars, monthVars>>

\* lines 148-151, 105-112
Plot ==
    /\ pc = "loop" /\ todo = {}
    /\ counts' = PhaseBucketCounts(all_observations, all_lunar_cycle)
    /\ pc' = "done"
    /\ UNCHANGED <<year, todo, month, fetchVars, taxon_name, yearVars, error,
                   remote, n_requests, failures, jumps, phaseVars,
                   monthVars>>

Next == NextMonthInOrder \/ Request \/ TaxonName \/ LunarAndMerge \/ Plot

Spec == Init /\ [][Next]_vars

-----------------------------------------------------------------------------
(* The same run with the months taken in any order.                        *)

MaxJumps == 3

PermYear == CHOOSE y \in MainYears : is_leap(y) /\ y < MAXYEAR

PermRemotes ==
    { [m \in 1..12 |->
          IF m = 1 THEN early ELSE IF m = 12 THEN LateSeq(PermYear) ELSE << >>] :
        early \in { << (<<PermYear, 1, 11>> :> 3) @@ (<<PermYear, 1, 25>> :> 5) >>,
                    << (<<PermYear, 1, 25>> :> 1) @@ (<<PermYear, 1, 26>> :> 2)
                           @@ (<<PermYear + 1, 1, 1>> :> 4) >> } }

InitPerm ==
    /\ \E rem \in PermRemotes : StartMain(PermYear, rem)
    /\ IdlePhase /\ IdleMonth

\* line 135 with the months in another order: the loop takes the next month
\* of range(1, 13) or, up to MaxJumps times, any other month not yet taken
NextMonthAnyOrder ==
    /\ pc = "loop" /\ todo # {}
    /\ \E m \in todo :
        LET next == \A o \in todo : m <= o
        IN  /\ next \/ jumps < MaxJumps
            /\ jumps' = IF next THEN jumps ELSE jumps + 1
            /\ EnterMonth(m)

NextPerm ==
    NextMonthAnyOrder \/ Request \/ TaxonName \/ LunarAndMerge \/ Plot

SpecPerm == InitPerm /\ [][NextPerm]_vars

-----------------------------------------------------------------------------
(* C1: calculate_lunar_phase returns exactly one label for every instant,  *)
(* and it is the label whose half-open range contains the phase fraction:  *)
(* a range's lower bound belongs to it, its upper bound to the next one.   *)

PhaseRanges ==
    << {<<970, 1000>>, <<0, 30>>}, {<<30, 250>>}, {<<250, 270>>},
       {<<270, 500>>}, {<<500, 530>>}, {<<530, 750>>}, {<<750, 770>>},
       {<<770, 970>>} >>

InPhaseRange(i, np) == \E r \in PhaseRanges[i] : r[1] <= np /\ np < r[2]

\* C1: the label returned is the one whose range holds the fraction
C1_LabelIsRangeOfFraction ==
    phase # None =>
        \E i \in 1..8 :
            /\ phase = LUNAR_PHASES[i]
            /\ InPhaseRange(i, normalized_phase)
            /\ \A j \in (1..8) \ {i} : ~InPhaseRange(j, normalized_phase)

C1_Witness ==
    /\ phase = "Waxing Gibbous"
    /\ normalized_phase = 270
    /\ days_since_new_moon.d < 0

(* C2: the phase fraction lies in [0, 1) for every instant, also before    *)
(* the reference new moon, where an instant shortly before it is New Moon  *)
(* through the [0.97, 1) band.                                             *)

\* less than twelve hours before the reference new moon
ShortlyBeforeNewMoon ==
    days_since_new_moon.d = -1 /\ days_since_new_moon.m >= 720

\* C2: 0 <= fraction < 1, and New Moon by the upper band just before the epoch
C2_FractionInUnitInterval ==
    phase # None =>
        /\ 0 <= normalized_phase /\ normalized_phase < 1000
        /\ (ShortlyBeforeNewMoon
               => normalized_phase >= 970 /\ phase = "New Moon")

C2_Witness ==
    /\ phase = "New Moon"
    /\ days_since_new_moon = Dur(0, -14, 0)
    /\ normalized_phase = 999

-----------------------------------------------------------------------------
(* The calendar as the claims state it.                                    *)

LeapYear(y) == (y % 4 = 0 /\ y % 100 # 0) \/ y % 400 = 0

CalendarDays(y, m) ==
    IF m = 2 THEN (IF LeapYear(y) THEN 29 ELSE 28)
    ELSE IF m \in {4, 6, 9, 11} THEN 30 ELSE 31

DaysOfMonth(y, m) == { <<y, m, d>> : d \in 1..CalendarDays(y, m) }

Labels == { LUNAR_PHASES[i] : i \in 1..8 }

\* the table of (y, m): one entry and one phase call per calendar day
ExactTable(r, y, m) ==
    /\ r.returned
    /\ DOMAIN r.lunar_cycle = DaysOfMonth(y, m)
    /\ r.calls = CalendarDays(y, m)
    /\ \A k \in DOMAIN r.lunar_cycle : r.lunar_cycle[k] \in Labels

(* C3: for every year and every month in 1..12 the call returns a table    *)
(* with exactly one entry per calendar day of the month, 31 for December,  *)
(* every value a phase label.  Stated for the years a datetime can hold.   *)

\* C3: every (year, month) with month in 1..12 gives the exact table
C3_TablePerCalendarDay ==
    (/\ month_result # NotCalled
     /\ month_arg \in 1..12
     /\ year_arg \in MINYEAR..MAXYEAR)
        => ExactTable(month_result, year_arg, month_arg)

\* what the code does keep: whenever a table is returned, it is exact
TableExactWhenReturned ==
    month_result.returned
        => ExactTable(month_result, year_arg, month_arg)

(* C4: a month outside 1..12 fails with an invalid-input error before any  *)
(* phase is computed, and no table is returned.                            *)

\* C4: month outside 1..12 raises ValueError with no phase call and no table
C4_BadMonthRaises ==
    (month_result # NotCalled /\ month_arg \notin 1..12)
        => /\ month_result.error = "ValueError"
           /\ ~month_result.returned
           /\ month_result.calls = 0

C4_Witness ==
    /\ month_arg = 13
    /\ year_arg = 2024
    /\ month_result # NotCalled
    /\ month_result.error = "ValueError"

(* C5: with month in 1..12 the call succeeds for any integer year.         *)

\* C5: month in 1..12 succeeds whatever the year
C5_AnyYearSucceeds ==
    (month_result # NotCalled /\ month_arg \in 1..12)
        => month_result.returned

-----------------------------------------------------------------------------
(* C6: the fetch requests pages 1, 2, 3, ... in order with page size 200,  *)
(* stops after the first page with fewer than 200 results (an empty page   *)
(* included) and sends no request after it; once such a page has come the  *)
(* fetch has ended, and the count it returns for a date is the number of   *)
(* results with that date over all the pages fetched.                      *)

RECURSIVE ResultsWithDate(_, _)
ResultsWithDate(k, i) ==
    IF i = 0 THEN 0
    ELSE GetCount(requested[i].results, k) + ResultsWithDate(k, i - 1)

DatesSeen ==
    (DOMAIN observations)
        \cup UNION { DOMAIN requested[i].results : i \in 1..Len(requested) }

PageSize(i) == Len_results(requested[i].results)

FetchReturned == pc \in {"taxon", "lunar"}

\* C6: pages 1, 2, ... of 200 in order, none after the first short page, and
\* the counts returned are the per-date sums over the pages fetched
C6_PagesInOrderUntilShort ==
    LET n == Len(requested)
    IN  /\ \A i \in 1..n :
            requested[i].page = i /\ requested[i].per_page = 200
        /\ \A i \in 1..(n - 1) : requested[i].ok /\ PageSize(i) = 200
        /\ pc = "request" => page = n + 1 /\ \A i \in 1..n : PageSize(i) = 200
        /\ (n > 0 /\ requested[n].ok /\ PageSize(n) < 200) => pc # "request"
        /\ FetchReturned =>
            /\ n > 0 /\ requested[n].ok /\ PageSize(n) < 200
            /\ \A k \in DatesSeen :
                /\ GetCount(observations, k) = ResultsWithDate(k, n)
                /\ k \in DOMAIN observations

C6_Witness ==
    /\ pc = "taxon"
    /\ Len(requested) = 3
    /\ PageSize(3) = 0
    /\ GetCount(observations, <<year, 1, 11>>) = 320
    /\ GetCount(observations, <<year, 1, 25>>) = 80

(* C7: a failed HTTP request (a page request or the taxon-name lookup) is  *)
(* not retried, nothing of the month it failed in reaches the year-scope   *)
(* accumulators, no later month is processed and no chart is produced; a   *)
(* chart is produced only after twelve months without a failure.           *)

C7_FailedRunState ==
    /\ failures > 0 =>
        /\ pc = "failed" /\ error = "HTTPError" /\ failures = 1
        /\ counts = << >>
        /\ month \notin merged
        /\ merged = 1..(month - 1) /\ todo = (month + 1)..12
    /\ counts # << >> => pc = "done"
    /\ pc = "done" => failures = 0 /\ error = None /\ merged = 1..12

C7_FailedRunStep ==
    /\ failures = 0
    /\ failures' > 0 =>
        /\ all_observations' = all_observations
        /\ all_lunar_cycle' = all_lunar_cycle
        /\ merged' = merged

\* C7: a failed request ends the run at once: no retry, nothing merged for the
\* month, no later month, no chart
C7_FailureAbortsRun == []C7_FailedRunState /\ [][C7_FailedRunStep]_vars

\* the second page request of a month fails after the first page was counted
C7_Witness ==
    /\ pc = "failed" /\ error = "HTTPError"
    /\ Len(requested) = 2 /\ ~requested[2].ok
    /\ GetCount(observations, <<year, 1, 11>>) = 200
    /\ all_observations = EmptyDict
    /\ todo = 2..12

(* C8: the histogram has a value for each of the eight phases in           *)
(* LUNAR_PHASES order; the value of a phase is the sum of the counts of    *)
(* exactly the observed dates the phase table maps to it; a date without   *)
(* an entry is skipped, so the values sum to the count of the dates that   *)
(* have an entry.                                                          *)

RECURSIVE TotalOf(_)
TotalOf(keys) ==
    IF keys = {} THEN 0
    ELSE LET k == CHOOSE x \in keys : TRUE
         IN  all_observations[k] + TotalOf(keys \ {k})

DatesWithPhase(label) ==
    { k \in DOMAIN all_observations :
        k \in DOMAIN all_lunar_cycle /\ all_lunar_cycle[k] = label }

DatesWithEntry == (DOMAIN all_observations) \cap (DOMAIN all_lunar_cycle)

\* C8: eight values in LUNAR_PHASES order, each the sum over the dates the
\* table maps to the phase, dates without an entry skipped
C8_HistogramSumsPerPhase ==
    pc = "done" =>
        /\ DOMAIN counts = 1..8
        /\ \A i \in 1..8 : counts[i] = TotalOf(DatesWithPhase(LUNAR_PHASES[i]))
        /\ counts[1] + counts[2] + counts[3] + counts[4] + counts[5]
               + counts[6] + counts[7] + counts[8] = TotalOf(DatesWithEntry)

C8_Witness ==
    /\ pc = "done"
    /\ <<year + 1, 1, 1>> \in DOMAIN all_observations
    /\ \E i \in 1..8 : Cardinality(DatesWithPhase(LUNAR_PHASES[i])) >= 2
    /\ \E i \in 1..8 : counts[i] = 0

(* C9: merging the twelve months in the order 1..12 or in another order,   *)
(* then bucketing, gives the same eight-bucket histogram.                  *)

RECURSIVE MergedInOrder(_)
MergedInOrder(m) ==
    IF m = 0 THEN EmptyYear
    ELSE MergeMonth(MergedInOrder(m - 1), monthly[m],
                    get_lunar_cycle_for_month(year, m).lunar_cycle)

HistogramOf(acc) == PhaseBucketCounts(acc.all_observations, acc.all_lunar_cycle)

\* C9: the histogram of a run equals the histogram of the in-order merge of
\* the same monthly results
C9_OrderIndependent ==
    pc = "done" => counts = HistogramOf(MergedInOrder(12))

C9_Witness ==
    /\ pc = "done"
    /\ month # 12
    /\ jumps > 1
    /\ <<year, 1, 11>> \in DOMAIN monthly[1]
    /\ <<year, 1, 11>> \in DOMAIN monthly[12]

(* C10: the year-scope accumulators only grow.  After month m is merged    *)
(* the phase table holds exactly the days of months 1..m; a merge never    *)
(* overwrites or removes an earlier entry (the monthly tables are pairwise *)
(* disjoint) and never lowers a count; after month 12 the table has one    *)
(* entry per day of the year, 365 or 366.                                  *)

C10_TableIsMonthsMerged ==
    /\ \E m \in 0..12 : merged = 1..m
    /\ DOMAIN all_lunar_cycle = UNION { DaysOfMonth(year, m) : m \in merged }
    /\ merged = 1..12 =>
           Cardinality(DOMAIN all_lunar_cycle)
               = IF LeapYear(year) THEN 366 ELSE 365

C10_MergeOnlyAdds ==
    /\ \A k \in DOMAIN all_lunar_cycle :
           k \in DOMAIN all_lunar_cycle'
               /\ all_lunar_cycle'[k] = all_lunar_cycle[k]
    /\ \A k \in DOMAIN all_observations :
           k \in DOMAIN all_observations'
               /\ all_observations'[k] >= all_observations[k]
    /\ merged' # merged =>
           /\ merged' = merged \cup {month}
           /\ (DOMAIN all_lunar_cycle) \cap DaysOfMonth(year, month) = {}
           /\ (DOMAIN all_lunar_cycle') \ (DOMAIN all_lunar_cycle)
                  = DaysOfMonth(year, month)

\* C10: the year table is the days of the months merged, and a merge only adds
C10_AccumulatorsGrow == []C10_TableIsMonthsMerged /\ [][C10_MergeOnlyAdds]_vars

C10_Witness ==
    /\ pc = "done"
    /\ year = 2024
    /\ Cardinality(DOMAIN all_lunar_cycle) = 366
    /\ GetCount(all_observations, <<year, 1, 11>>) = 5
    /\ GetCount(all_observations, <<year, 12, 31>>) = 1

====
